---------------------------- MODULE Spec2Model ----------------------------
(***************************************************************************)
(* School-bus routing engine: the optimise-routes request of app.py and    *)
(* optimize_routes / analyze_student_clusters / solve_cvrp of              *)
(* route_optimizer.py.                                                      *)
(*                                                                         *)
(* Geometry.  Every point lies on one meridian; a coordinate is a whole    *)
(* number of kilometres of arc from the equator, so haversine_distance     *)
(* of two points is the difference of their coordinates.  Distances are    *)
(* carried in metres and times in seconds, both integers.  A centroid is   *)
(* the exact rational  num / den.                                          *)
(*                                                                         *)
(* Collaborators.  DBSCAN (sklearn), the OR-Tools search and the OneMap    *)
(* service are not part of the repository: each is an oracle whose answer  *)
(* is drawn from a bounded set that respects what the code passes to it    *)
(* (min_samples, the capacity dimension, the number of vehicles).          *)
(***************************************************************************)
EXTENDS Integers, Sequences, FiniteSets, TLC

VARIABLES
    school_location,   \* app.py: the school record, or None
    input,             \* the student list of the request, as runs of students
    max_buses,         \* request parameter
    service,           \* how the OneMap service answers while the request runs
    pc,                \* position inside optimise_routes_endpoint / optimize_routes
    cluster_analysis,  \* result of analyze_student_clusters (cluster_info is mutated by the attach loop)
    all_routes,        \* per-cluster branch accumulators
    total_distance,
    max_route_time,
    cluster_idx,       \* loop index of the per-cluster loop
    results,           \* fleet sweep: recorded candidates
    num_buses,         \* fleet sweep: next fleet size to try
    response,          \* what the request answered
    solve_calls,       \* history: the solve_cvrp calls made, in order
    onemap_calls,      \* history: number of get_route_from_onemap calls made
    call,              \* a direct call of one function of route_optimizer.py: its name and arguments
    returned,          \* what that call returned
    app_students,      \* app.py: students, the in-memory list the handlers edit, as [id, latitude] rows
    last_removed       \* history: number of rows the last delete_student removed

vars == <<school_location, input, max_buses, service, pc, cluster_analysis, all_routes,
          total_distance, max_route_time, cluster_idx, results, num_buses,
          response, solve_calls, onemap_calls, call, returned, app_students, last_removed>>

-----------------------------------------------------------------------------
(* Program constants *)

EPS_KM == 3                 \* DBSCAN eps = 0.03 degrees of arc (3.34 km): whole-km coordinates are neighbours iff at most 3 km apart

CAPACITY == 40              \* students per bus
MIN_SAMPLES == 3            \* DBSCAN min_samples
FAR_APART_KM == 7           \* clusters farther apart than this are routed separately
SPEED_MODE_SECONDS == 1800  \* above this best time the sweep prioritises speed
SLACK_PERCENT == 115        \* threshold = min_time * 1.15
PICKUP_SECONDS == 60        \* dwell per student
AVG_SPEED_KMH == 30
ROAD_FACTOR_PERMILLE == 1300 \* road factor 1.3, times 1000 m per km
MIN_RADIUS_M == 500
DEFAULT_MAX_BUSES == 3

(* Bounds of the model *)

MaxBuses == 3               \* max_buses of a request ranges over 1..MaxBuses
MaxRuns == 3                \* the student list is made of at most MaxRuns runs of co-located students

MaxPolyline == 4            \* an encoded polyline has at most MaxPolyline characters
MaxStudents == 4            \* the edited student list holds at most MaxStudents rows
MaxGenerated == 2           \* one generate_students call appends at most MaxGenerated rows

None == "None"
RETURN_TO_SCHOOL == "Return to School"

-----------------------------------------------------------------------------
(* Generic helpers *)

Abs(x) == IF x < 0 THEN -x ELSE x

Max2(a, b) == IF a >= b THEN a ELSE b

Min2(a, b) == IF a <= b THEN a ELSE b

\* math.ceil(a / b) for a >= 0, b > 0
Ceil(a, b) == (a + b - 1) \div b

RECURSIVE SumSeq(_)
SumSeq(s) == IF s = <<>> THEN 0 ELSE Head(s) + SumSeq(Tail(s))

RECURSIVE MaxSeq(_)
MaxSeq(s) == IF s = <<>> THEN 0 ELSE Max2(Head(s), MaxSeq(Tail(s)))

RECURSIVE Flatten(_)
Flatten(ss) == IF ss = <<>> THEN <<>> ELSE Head(ss) \o Flatten(Tail(ss))

Range(s) == {s[i] : i \in DOMAIN s}

\* [x for x in s if P(x)], order kept
RECURSIVE Filter(_, _)
Filter(s, keep) ==
    IF s = <<>> THEN <<>>
    ELSE (IF Head(s) \in keep THEN <<Head(s)>> ELSE <<>>) \o Filter(Tail(s), keep)

\* round(a / b) for a >= 0, b > 0: Python rounds halves to even
RoundDiv(a, b) ==
    LET q == a \div b
        r == a % b
    IN  IF 2 * r < b THEN q
        ELSE IF 2 * r > b THEN q + 1
        ELSE IF q % 2 = 0 THEN q ELSE q + 1

-----------------------------------------------------------------------------
(* Rationals  [num, den]  with den > 0: centroids and the distances taken   *)
(* from them (np.mean of coordinates is not a whole number).                *)

RECURSIVE Gcd(_, _)
Gcd(a, b) == IF b = 0 THEN a ELSE Gcd(b, a % b)

\* n / d in lowest terms (n >= 0, d > 0)
Rat(n, d) == LET g == Gcd(n, d) IN [num |-> n \div g, den |-> d \div g]

RatAdd(a, b) == Rat(a.num * b.den + b.num * a.den, a.den * b.den)

RatLess(a, b) == a.num * b.den < b.num * a.den

RatGreaterInt(a, k) == a.num > k * a.den

\* float('inf'): larger than every rational
INFINITY == [num |-> 1, den |-> 0]

-----------------------------------------------------------------------------
(* The request's data.  The student list is a sequence of runs; run r is    *)
(* runs[r].size students living at coordinate runs[r].pos.  Student ids     *)
(* are 1..N in list order (app.py gives a fresh list the ids 1..N).         *)

SCHOOL_POS == 0

Positions == {2, 9, 10, 16}

RunSizes == {1, 3, CAPACITY}

\* the runs of a list lie at different places, listed from south to north
\* or from north to south; a run that fills a whole bus, if there is one,
\* leads the list (and may be followed by a second one)
RunLists ==
    { rs \in UNION { [1..n -> [size : RunSizes, pos : Positions]] : n \in 0..MaxRuns } :
        /\ \/ \A i, j \in DOMAIN rs : i < j => rs[i].pos < rs[j].pos
           \/ \A i, j \in DOMAIN rs : i < j => rs[i].pos > rs[j].pos
        /\ \A i \in DOMAIN rs :
              rs[i].size = CAPACITY => (i = 1 \/ (i = 2 /\ rs[1].size = CAPACITY)) }

\* two groups of 20 students about 3 km from each other: 3 km apart they
\* are within eps of each other, 4 km apart they are not
TwoCloseClusters ==
    { << [size |-> 20, pos |-> 2], [size |-> 20, pos |-> 2 + d] >> : d \in {3, 4} }

\* the student lists a request is made with
Inputs == RunLists \cup TwoCloseClusters

RECURSIVE RunStart(_, _)
\* number of students in the runs before run r
RunStart(runs, r) == IF r = 1 THEN 0 ELSE RunStart(runs, r - 1) + runs[r - 1].size

NumStudents(runs) == IF runs = <<>> THEN 0 ELSE RunStart(runs, Len(runs)) + runs[Len(runs)].size

\* the list  students  of app.py, by id
StudentList(runs) == [i \in 1..NumStudents(runs) |-> i]

\* the run a student belongs to
RunOf(runs, id) ==
    CHOOSE r \in DOMAIN runs : RunStart(runs, r) < id /\ id <= RunStart(runs, r) + runs[r].size

\* s['latitude'] of a student
Latitude(runs, id) == runs[RunOf(runs, id)].pos

-----------------------------------------------------------------------------
(* Geo primitives *)

\* great-circle distance of two points of the meridian, in metres
haversine_distance(lat1, lat2) == 1000 * Abs(lat2 - lat1)

\* seconds at 30 km/h; exact for the distances of this model (multiples of 100 m)
estimate_travel_time(distance_m) == (distance_m * 3600) \div (AVG_SPEED_KMH * 1000)

\* distance from a point to a centroid, kilometres as a rational
HaversineToCentroid(lat, c) == Rat(Abs(lat * c.den - c.num), c.den)

\* distance between two centroids, kilometres as a rational
HaversineCentroids(a, b) == Rat(Abs(a.num * b.den - b.num * a.den), a.den * b.den)

-----------------------------------------------------------------------------
(* DBSCAN(eps=0.03, min_samples=3).fit(coords).labels_                      *)
(* The students of one run are the same point, so they are neighbours of   *)
(* the same points and carry the same label: the labelling is computed     *)
(* run by run, in list order, as the library does sample by sample.        *)

Neighbours(runs, r) == { q \in DOMAIN runs : Abs(runs[q].pos - runs[r].pos) <= EPS_KM }

RECURSIVE SizeOfRuns(_, _)
SizeOfRuns(runs, rset) ==
    IF rset = {} THEN 0
    ELSE LET r == CHOOSE x \in rset : TRUE
         IN  runs[r].size + SizeOfRuns(runs, rset \ {r})

\* a core sample has at least min_samples samples within eps, itself included
IsCore(runs, r) == SizeOfRuns(runs, Neighbours(runs, r)) >= MIN_SAMPLES

\* everything density-reachable from the runs of  grown  that is not labelled yet
RECURSIVE Expand(_, _, _)
Expand(runs, labels, grown) ==
    LET more == { q \in DOMAIN runs :
                    /\ labels[q] = -1
                    /\ \E r \in grown : IsCore(runs, r) /\ q \in Neighbours(runs, r) }
    IN  IF more \subseteq grown THEN grown ELSE Expand(runs, labels, grown \cup more)

RECURSIVE DbscanFrom(_, _, _, _)
DbscanFrom(runs, r, labels, label_num) ==
    IF r > Len(runs) THEN labels
    ELSE IF labels[r] # -1 \/ ~IsCore(runs, r)
         THEN DbscanFrom(runs, r + 1, labels, label_num)
         ELSE LET grown == Expand(runs, labels, {r})
              IN  DbscanFrom(runs, r + 1,
                             [q \in DOMAIN runs |-> IF q \in grown THEN label_num ELSE labels[q]],
                             label_num + 1)

\* label of each run: 0, 1, ... for clusters, -1 for noise
Dbscan(runs) == DbscanFrom(runs, 1, [q \in DOMAIN runs |-> -1], 0)

-----------------------------------------------------------------------------
(* analyze_student_clusters *)

\* labels[i] of the i-th student
StudentLabels(runs) ==
    LET run_labels == Dbscan(runs)
    IN  [i \in 1..NumStudents(runs) |-> run_labels[RunOf(runs, i)]]

\* a mask that compares with >= instead of ==
MaskedStudentsAtLeast(students, labels, cluster_id) ==
    Filter(students, { s \in Range(students) : labels[s] >= cluster_id })

\* [s for i, s in enumerate(students) if labels[i] == cluster_id]
MaskedStudents(students, labels, cluster_id) ==
    Filter(students, { s \in Range(students) : labels[s] = cluster_id })

\* (np.mean(cluster_coords[:, 0])): the centroid as a rational
Centroid(runs, members) ==
    Rat(SumSeq([i \in DOMAIN members |-> Latitude(runs, members[i])]), Len(members))

\* max pairwise haversine distance of the members, metres
Spread(runs, members) ==
    LET pts == { Latitude(runs, members[i]) : i \in DOMAIN members }
    IN  IF members = <<>> THEN 0
        ELSE LET far == CHOOSE pq \in pts \X pts :
                          \A xy \in pts \X pts :
                              haversine_distance(xy[1], xy[2]) <= haversine_distance(pq[1], pq[2])
             IN  haversine_distance(far[1], far[2])

ClusterRecord(runs, students, labels, cluster_id) ==
    LET cluster_students == MaskedStudents(students, labels, cluster_id)
        center == Centroid(runs, cluster_students)
    IN  [ id |-> cluster_id,
          size |-> Len(cluster_students),
          center |-> center,
          distance_from_school |-> HaversineToCentroid(SCHOOL_POS, center),
          spread |-> Spread(runs, cluster_students),
          students |-> cluster_students ]

\* the list of haversine distances between cluster centres, pairs i < j
ClusterDistances(cluster_info) ==
    LET n == Len(cluster_info)
        pairs == { ij \in (1..n) \X (1..n) : ij[1] < ij[2] }
        RECURSIVE Collect(_)
        Collect(ps) ==
            IF ps = {} THEN <<>>
            ELSE LET ij == CHOOSE x \in ps :
                             \A y \in ps : x[1] < y[1] \/ (x[1] = y[1] /\ x[2] <= y[2])
                 IN  <<HaversineCentroids(cluster_info[ij[1]].center, cluster_info[ij[2]].center)>>
                         \o Collect(ps \ {ij})
    IN  Collect(pairs)

\* np.mean(cluster_distances) if cluster_distances else 0, kilometres as a rational
RECURSIVE RatSum(_)
RatSum(ds) == IF ds = <<>> THEN Rat(0, 1) ELSE RatAdd(Head(ds), RatSum(Tail(ds)))

MeanDistance(ds) ==
    IF ds = <<>> THEN Rat(0, 1)
    ELSE LET total == RatSum(ds) IN Rat(total.num, total.den * Len(ds))

\* buses_needed with the isolated students left out of the far-apart sum
BusesNeededClustersOnly(n_students, n_clusters, n_noise, cluster_info, avg_cluster_distance) ==
    IF n_clusters >= 2 /\ RatGreaterInt(avg_cluster_distance, FAR_APART_KM)
    THEN SumSeq([c \in DOMAIN cluster_info |->
                    Max2(1, Ceil(cluster_info[c].size, CAPACITY))])
    ELSE Max2(1, Ceil(n_students, CAPACITY))

\* buses_needed of the branch taken (lines 412-439)
BusesNeeded(n_students, n_clusters, n_noise, cluster_info, avg_cluster_distance) ==
    IF n_clusters = 0 THEN Max2(1, Ceil(n_students, CAPACITY))
    ELSE IF n_clusters = 1 THEN Max2(1, Ceil(n_students, CAPACITY))
    ELSE IF RatGreaterInt(avg_cluster_distance, FAR_APART_KM)
         THEN SumSeq([c \in DOMAIN cluster_info |->
                         Max2(1, Ceil(cluster_info[c].size, CAPACITY))])
              + (IF n_noise > 0 THEN Ceil(n_noise, CAPACITY) ELSE 0)
         ELSE Max2(1, Ceil(n_students, CAPACITY))

\* which of the four recommendation texts of lines 412-439 is produced
Recommendation(n_clusters, avg_cluster_distance) ==
    IF n_clusters = 0 THEN "spread out"
    ELSE IF n_clusters = 1 THEN "one dense cluster"
    ELSE IF RatGreaterInt(avg_cluster_distance, FAR_APART_KM) THEN "far apart"
    ELSE "close"

Visualization(runs, cluster_info, isolated_students) ==
    [ clusters |-> [c \in DOMAIN cluster_info |->
                       [ id |-> cluster_info[c].id,
                         center |-> cluster_info[c].center,
                         radius |-> Max2(MIN_RADIUS_M, cluster_info[c].spread \div 2),
                         size |-> cluster_info[c].size,
                         distance_from_school |-> cluster_info[c].distance_from_school ]],
      isolated |-> [i \in DOMAIN isolated_students |->
                       [ name |-> isolated_students[i],
                         lat |-> Latitude(runs, isolated_students[i]) ]] ]

\* the dict returned for fewer than 2 students has no 'recommended_buses' key
TrivialAnalysis == [trivial |-> TRUE]

analyze_student_clusters(runs) ==
    LET students == StudentList(runs)
        labels == StudentLabels(runs)
        label_set == Range(labels)
        n_clusters == Cardinality(label_set) - (IF -1 \in label_set THEN 1 ELSE 0)
        isolated_students == MaskedStudents(students, labels, -1)
        n_noise == Cardinality({ i \in DOMAIN labels : labels[i] = -1 })
        cluster_info == [c \in 1..n_clusters |-> ClusterRecord(runs, students, labels, c - 1)]
        avg == MeanDistance(ClusterDistances(cluster_info))
    IN  IF Len(students) < 2 THEN TrivialAnalysis
        ELSE [ trivial |-> FALSE,
               n_clusters |-> n_clusters,
               n_noise |-> n_noise,
               cluster_info |-> cluster_info,
               isolated_students |-> isolated_students,
               avg_cluster_distance |-> avg,
               recommended_buses |->
                   BusesNeeded(Len(students), n_clusters, n_noise, cluster_info, avg),
               recommendation |-> Recommendation(n_clusters, avg),
               visualization |-> Visualization(runs, cluster_info, isolated_students) ]

-----------------------------------------------------------------------------
(* decode_polyline.  A string is the sequence of its character codes; a    *)
(* decoded coordinate is kept in units of 1e-5 degree.  The result is      *)
(* [ok, value, index]; ok = FALSE is the IndexError of reading past the    *)
(* end, which the bare except turns into [].                               *)

RECURSIVE DecodeValue(_, _, _, _)
\* the inner  while True  loop: result |= (b & 0x1f) << shift.  The chunks
\* occupy disjoint bits, so the or is a sum;  weight = 2^shift.
DecodeValue(encoded, index, result, weight) ==
    IF index > Len(encoded) THEN [ok |-> FALSE, value |-> 0, index |-> index]
    ELSE LET b == encoded[index] - 63
             r == result + (b % 32) * weight
         IN  IF b < 32
             THEN [ ok |-> TRUE,
                    value |-> IF r % 2 = 1 THEN -(r \div 2) - 1 ELSE r \div 2,
                    index |-> index + 1 ]
             ELSE DecodeValue(encoded, index + 1, r, weight * 32)

RECURSIVE DecodeFrom(_, _, _, _, _)
DecodeFrom(encoded, index, lat, lng, coordinates) ==
    IF index > Len(encoded) THEN coordinates
    ELSE LET dlat == DecodeValue(encoded, index, 0, 1)
         IN  IF ~dlat.ok THEN <<>>
             ELSE LET dlng == DecodeValue(encoded, dlat.index, 0, 1)
                  IN  IF ~dlng.ok THEN <<>>
                      ELSE DecodeFrom(encoded, dlng.index, lat + dlat.value, lng + dlng.value,
                                      Append(coordinates, <<lat + dlat.value, lng + dlng.value>>))

decode_polyline(encoded) == DecodeFrom(encoded, 1, 0, 0, <<>>)

-----------------------------------------------------------------------------
(* The OneMap routing service, as get_route_from_onemap sees it *)

\* "AC": one point;  "ACAA": two points;  "A": a latitude without a longitude
POLY_EMPTY == <<>>
POLY_ONE_POINT == <<65, 67>>
POLY_TWO_POINTS == <<65, 67, 65, 65>>
POLY_TRUNCATED == <<65>>

SERVICE_DISTANCE_M == 1500
SERVICE_TIME_S == 200

Reply(code, status, summary, has_geometry, geometry) ==
    [ raised |-> FALSE, status_code |-> code, status |-> status,
      has_route_summary |-> summary, total_distance |-> SERVICE_DISTANCE_M,
      total_time |-> SERVICE_TIME_S, has_route_geometry |-> has_geometry,
      route_geometry |-> geometry ]

\* requests.get raised (network error, timeout after 10 s)
ServiceException ==
    [ raised |-> TRUE, status_code |-> 0, status |-> 0, has_route_summary |-> FALSE,
      total_distance |-> 0, total_time |-> 0, has_route_geometry |-> FALSE,
      route_geometry |-> <<>> ]

\* the ways a call can fail
ServiceFailures ==
    { ServiceException,
      Reply(500, 0, TRUE, TRUE, POLY_TWO_POINTS),     \* non-OK status
      Reply(200, 1, TRUE, TRUE, POLY_TWO_POINTS),     \* body with a non-zero status
      Reply(200, 0, FALSE, TRUE, POLY_TWO_POINTS),    \* body without route_summary
      Reply(200, 0, TRUE, FALSE, POLY_EMPTY) }        \* body without route_geometry: KeyError

\* a route was found; its geometry is whatever the service encoded
ServiceSuccesses ==
    { Reply(200, 0, TRUE, TRUE, g) :
        g \in {POLY_TWO_POINTS, POLY_ONE_POINT, POLY_TRUNCATED, POLY_EMPTY} }

\* the service conditions a request is run under
ServiceResponses ==
    { ServiceException,
      Reply(200, 0, TRUE, TRUE, POLY_TWO_POINTS),
      Reply(200, 0, TRUE, TRUE, POLY_ONE_POINT),
      Reply(200, 0, TRUE, TRUE, POLY_TRUNCATED) }

\* a client that hands on what the reply holds, whatever the reply is
GetRouteWithoutFallback(start_lat, end_lat, reply) ==
    [ distance |-> reply.total_distance,
      time |-> reply.total_time,
      geometry |-> decode_polyline(reply.route_geometry) ]

\* (distance, time, geometry); distance in metres
get_route_from_onemap(start_lat, end_lat, reply) ==
    IF /\ ~reply.raised
       /\ reply.status_code = 200
       /\ reply.status = 0
       /\ reply.has_route_summary
       /\ reply.has_route_geometry
    THEN [ distance |-> reply.total_distance,
           time |-> reply.total_time,
           geometry |-> decode_polyline(reply.route_geometry) ]
    ELSE LET distance == haversine_distance(start_lat, end_lat)
         IN  [ distance |-> distance,
               time |-> estimate_travel_time(distance),
               geometry |-> << <<start_lat, 0>>, <<end_lat, 0>> >> ]

\* every segment gets geometry, distance and time from one service call
get_real_route_geometry_for_segments(route_segments, reply) ==
    [ i \in DOMAIN route_segments |->
        LET segment == route_segments[i]
            got == get_route_from_onemap(segment.from, segment.to, reply)
        IN  [ from |-> segment.from, to |-> segment.to, student |-> segment.student,
              geometry |-> got.geometry, distance |-> got.distance, time |-> got.time ] ]

-----------------------------------------------------------------------------
(* build_distance_matrix_fast: node 0 is the school, node i the i-th student *)
(* of the list; int(distance_km * 1.3 * 1000).                              *)

\* a matrix filled above the diagonal only
BuildMatrixOneWay(runs, students) ==
    LET n == Len(students)
        point(i) == IF i = 0 THEN SCHOOL_POS ELSE Latitude(runs, students[i])
        entry(i, j) == (haversine_distance(point(i), point(j)) * ROAD_FACTOR_PERMILLE) \div 1000
    IN  [ i \in 0..n |-> [ j \in 0..n |-> IF i < j THEN entry(i, j) ELSE 0 ] ]

build_distance_matrix_fast(runs, students) ==
    LET n == Len(students)
        point(i) == IF i = 0 THEN SCHOOL_POS ELSE Latitude(runs, students[i])
        entry(i, j) == (haversine_distance(point(i), point(j)) * ROAD_FACTOR_PERMILLE) \div 1000
    IN  [ i \in 0..n |-> [ j \in 0..n |->
            IF i = j THEN 0
            ELSE IF i < j THEN entry(i, j) ELSE entry(j, i) ] ]

-----------------------------------------------------------------------------
(* solve_cvrp.  The OR-Tools search is an oracle: within its 30 s it either *)
(* finds no solution, or returns for every vehicle a tour (the nodes it    *)
(* visits between leaving and re-entering the depot) such that every       *)
(* student node is on exactly one tour and no tour exceeds the vehicle's   *)
(* capacity.  Which of the feasible solutions it returns is not decided by *)
(* the code; the model draws it from the solutions in which the vehicles   *)
(* share out the list in list order and each vehicle takes no student,     *)
(* one, all remaining, a full load, or the fewest that leave the rest      *)
(* feasible.                                                               *)

\* a capacity dimension that admits one student too many
VehicleCapacitiesOneMore(num_vehicles) == [v \in 1..num_vehicles |-> CAPACITY + 1]

\* [40] * num_vehicles
VehicleCapacities(num_vehicles) == [v \in 1..num_vehicles |-> CAPACITY]

\* demand_callback: each student node = 1, the school = 0
Demand(node) == IF node > 0 THEN 1 ELSE 0

RECURSIVE CapacityFrom(_, _)
CapacityFrom(capacities, v) ==
    IF v > Len(capacities) THEN 0 ELSE capacities[v] + CapacityFrom(capacities, v + 1)

RECURSIVE LoadsFrom(_, _, _)
\* the ways vehicles v.. can share  remaining  students
LoadsFrom(capacities, v, remaining) ==
    IF v > Len(capacities) THEN (IF remaining = 0 THEN {<<>>} ELSE {})
    ELSE LET rest == CapacityFrom(capacities, v + 1)
             choices == { a \in {0, 1, remaining, capacities[v], remaining - rest} :
                            /\ 0 <= a
                            /\ a <= remaining
                            /\ a <= capacities[v]
                            /\ remaining - a <= rest }
         IN  UNION { { <<a>> \o more : more \in LoadsFrom(capacities, v + 1, remaining - a) }
                     : a \in choices }

\* the tours cut out of a visiting order by the loads
RECURSIVE CutTours(_, _)
CutTours(order, loads) ==
    IF loads = <<>> THEN <<>>
    ELSE <<SubSeq(order, 1, Head(loads))>>
            \o CutTours(SubSeq(order, Head(loads) + 1, Len(order)), Tail(loads))

NodeOrders(n) == { [i \in 1..n |-> i] }

\* what routing.SolveWithParameters may answer
NO_SOLUTION == [found |-> FALSE, raised |-> FALSE, tours |-> <<>>]

SOLVER_RAISED == [found |-> FALSE, raised |-> TRUE, tours |-> <<>>]

SolverAnswers(n, num_vehicles) ==
    {NO_SOLUTION, SOLVER_RAISED}
    \cup { [found |-> TRUE, raised |-> FALSE, tours |-> CutTours(order, loads)] :
             order \in NodeOrders(n),
             loads \in LoadsFrom(VehicleCapacities(num_vehicles), 1, n * Demand(1)) }

\* every segment taken to start at the school
SegmentFromSchool(runs, students, node_index, next_node) ==
    IF next_node # 0
    THEN [ from |-> SCHOOL_POS,
           to |-> Latitude(runs, students[next_node]),
           student |-> students[next_node] ]
    ELSE [ from |-> SCHOOL_POS, to |-> SCHOOL_POS, student |-> RETURN_TO_SCHOOL ]

\* the segment of one step of the extraction loop (lines 259-293)
Segment(runs, students, node_index, next_node) ==
    LET from_point == IF node_index = 0 THEN SCHOOL_POS ELSE Latitude(runs, students[node_index])
    IN  IF next_node # 0
        THEN [ from |-> from_point,
               to |-> Latitude(runs, students[next_node]),
               student |-> students[next_node] ]
        ELSE [ from |-> from_point, to |-> SCHOOL_POS, student |-> RETURN_TO_SCHOOL ]

\* route_segments of one vehicle: the walk from Start to End over its tour
RouteSegments(runs, students, tour) ==
    IF tour = <<>> THEN <<>>
    ELSE LET path == <<0>> \o tour \o <<0>>
         IN  [ i \in 1..(Len(tour) + 1) |-> Segment(runs, students, path[i], path[i + 1]) ]

\* route_students of one vehicle
RouteStudents(students, tour) == [i \in DOMAIN tour |-> students[tour[i]]]

\* sum(seg['distance'] for seg in enriched_segments), metres
RealDistance(segments) == SumSeq([i \in DOMAIN segments |-> segments[i].distance])

\* sum(seg['time'] for seg in enriched_segments) + len(route_students) * 60
RealTime(segments, route_students) ==
    SumSeq([i \in DOMAIN segments |-> segments[i].time]) + Len(route_students) * PICKUP_SECONDS

\* the route appended for a vehicle with students (lines 297-313);
\* distance_km is kept in metres (rounded to 10 m), time_minutes in tenths
Route(runs, students, tour, reply) ==
    LET route_students == RouteStudents(students, tour)
        enriched_segments ==
            get_real_route_geometry_for_segments(RouteSegments(runs, students, tour), reply)
    IN  [ students |-> route_students,
          distance_km |-> 10 * RoundDiv(RealDistance(enriched_segments), 10),
          time_seconds |-> RealTime(enriched_segments, route_students),
          time_minutes |-> RoundDiv(RealTime(enriched_segments, route_students), 6),
          student_count |-> Len(route_students),
          segments |-> enriched_segments ]

\* the dict solve_cvrp returns; kind tells its shape apart:
\*   "empty"  {'routes': [], 'total_distance': 0, 'total_time': 0}
\*   "error"  {'error': 'No solution found'}
\*   "raised" an exception left solve_cvrp
\*   "routes" the four-key dict of line 320
solve_cvrp(runs, students, num_vehicles, answer, reply) ==
    IF students = <<>>
    THEN [ kind |-> "empty", routes |-> <<>>, total_distance |-> 0,
           max_route_time |-> 0, num_buses |-> 0 ]
    ELSE IF answer.raised
    THEN [ kind |-> "raised", routes |-> <<>>, total_distance |-> 0,
           max_route_time |-> 0, num_buses |-> 0 ]
    ELSE IF ~answer.found
    THEN [ kind |-> "error", routes |-> <<>>, total_distance |-> 0,
           max_route_time |-> 0, num_buses |-> 0 ]
    ELSE LET used == Filter([v \in 1..num_vehicles |-> v],
                            { v \in 1..num_vehicles : answer.tours[v] # <<>> })
             routes == [ k \in DOMAIN used |-> Route(runs, students, answer.tours[used[k]], reply) ]
         IN  [ kind |-> "routes",
               routes |-> routes,
               total_distance |->
                   SumSeq([k \in DOMAIN routes |-> RealDistance(routes[k].segments)]),
               max_route_time |->
                   MaxSeq([k \in DOMAIN routes |->
                              RealTime(routes[k].segments, routes[k].students)]),
               num_buses |-> Len(routes) ]

\* get_route_from_onemap calls made while a result was built
Fetched(result) == SumSeq([k \in DOMAIN result.routes |-> Len(result.routes[k].segments)])

\* 'error' not in result and result['routes']
HasRoutes(result) == result.kind \in {"empty", "routes"} /\ result.routes # <<>>

-----------------------------------------------------------------------------
(* The request: optimise_routes_endpoint and optimize_routes *)

NOT_ANALYSED == [state |-> "none"]

NO_VISUALIZATION == [clusters |-> <<>>, isolated |-> <<>>]

\* a response of the request; kind is
\*   "bad_request"  the endpoint's 400
\*   "error"        a dict with 'error' and no routes
\*   "plan"         a dict with routes
\*   "exception"    optimize_routes raised
Answer(kind, error, routes, total_buses, max_time, distance, note, has_vis, vis) ==
    [ kind |-> kind, error |-> error, routes |-> routes, total_buses |-> total_buses,
      max_route_time_minutes |-> RoundDiv(max_time, 6),
      total_distance_km |-> 10 * RoundDiv(distance, 10),
      optimization_note |-> note,
      has_cluster_visualization |-> has_vis, cluster_visualization |-> vis ]

NO_RESPONSE == Answer("none", None, <<>>, 0, 0, 0, None, FALSE, NO_VISUALIZATION)

\* no function is called directly while a request is served
NO_CALL == [fn |-> "none"]

NOT_RETURNED == [done |-> FALSE]

Return(value) == [done |-> TRUE, value |-> value]

Init ==
    /\ school_location = None
    /\ input \in Inputs
    /\ max_buses = DEFAULT_MAX_BUSES
    /\ service = ServiceException
    /\ pc = "request"
    /\ cluster_analysis = NOT_ANALYSED
    /\ all_routes = <<>>
    /\ total_distance = 0
    /\ max_route_time = 0
    /\ cluster_idx = 0
    /\ results = <<>>
    /\ num_buses = 0
    /\ response = NO_RESPONSE
    /\ solve_calls = <<>>
    /\ onemap_calls = 0
    /\ call = NO_CALL
    /\ returned = NOT_RETURNED
    /\ app_students = <<>>
    /\ last_removed = 0

\* app.py set_school
SetSchool ==
    /\ pc = "request"
    /\ school_location = None
    /\ school_location' = "set"
    /\ UNCHANGED <<input, max_buses, service, pc, cluster_analysis, all_routes,
                   total_distance, max_route_time, cluster_idx, results, num_buses,
                   response, solve_calls, onemap_calls>>
    /\ UNCHANGED <<call, returned, app_students, last_removed>>

\* optimise_routes_endpoint, up to the call of optimize_routes; the request
\* brings max_buses, and the service's condition is fixed while it runs
Endpoint ==
    /\ pc = "request"
    /\ \E m \in 1..MaxBuses : max_buses' = m
    /\ IF school_location = None
       THEN /\ response' = Answer("bad_request", "Please set school location first",
                                  <<>>, 0, 0, 0, None, FALSE, NO_VISUALIZATION)
            /\ pc' = "done"
            /\ UNCHANGED service
       ELSE IF StudentList(input) = <<>>
       THEN /\ response' = Answer("bad_request", "Please add students first",
                                  <<>>, 0, 0, 0, None, FALSE, NO_VISUALIZATION)
            /\ pc' = "done"
            /\ UNCHANGED service
       ELSE /\ response' = response
            /\ pc' = "optimize"
            /\ \E reply \in ServiceResponses : service' = reply
    /\ UNCHANGED <<school_location, input, cluster_analysis, all_routes,
                   total_distance, max_route_time, cluster_idx, results, num_buses,
                   solve_calls, onemap_calls>>
    /\ UNCHANGED <<call, returned, app_students, last_removed>>

\* a threshold that is met at exactly 7 km
FarApartAtLeast(analysis) ==
    /\ analysis.avg_cluster_distance.num >= FAR_APART_KM * analysis.avg_cluster_distance.den
    /\ analysis.n_clusters > 1

\* avg_cluster_distance > 7 and n_clusters > 1
FarApart(analysis) ==
    /\ RatGreaterInt(analysis.avg_cluster_distance, FAR_APART_KM)
    /\ analysis.n_clusters > 1

\* optimize_routes, lines 486-510: the guard, the analysis, the choice of branch
Analyze ==
    /\ pc = "optimize"
    /\ IF school_location = None \/ StudentList(input) = <<>>
       THEN /\ response' = Answer("error", "School location or students not set",
                                  <<>>, 0, 0, 0, None, FALSE, NO_VISUALIZATION)
            /\ pc' = "done"
            /\ UNCHANGED cluster_analysis
       ELSE LET analysis == analyze_student_clusters(input)
            IN  IF analysis.trivial
                THEN \* cluster_analysis['recommended_buses'] raises KeyError
                     /\ cluster_analysis' = [state |-> "trivial"]
                     /\ response' = Answer("exception", "KeyError: 'recommended_buses'",
                                           <<>>, 0, 0, 0, None, FALSE, NO_VISUALIZATION)
                     /\ pc' = "done"
                ELSE /\ cluster_analysis' = [state |-> "full"] @@ analysis
                     /\ response' = response
                     /\ pc' = IF FarApart(analysis) THEN "attach" ELSE "sweep"
    /\ UNCHANGED <<school_location, input, max_buses, service, all_routes, total_distance,
                   max_route_time, cluster_idx, results, num_buses, solve_calls,
                   onemap_calls>>
    /\ UNCHANGED <<call, returned, app_students, last_removed>>

\* a search in which a later cluster wins a tie
RECURSIVE NearestFromLast(_, _, _, _, _)
NearestFromLast(cluster_info, lat, idx, min_dist, nearest_cluster_idx) ==
    IF idx > Len(cluster_info) THEN nearest_cluster_idx
    ELSE LET dist == HaversineToCentroid(lat, cluster_info[idx].center)
         IN  IF ~RatLess(min_dist, dist)
             THEN NearestFromLast(cluster_info, lat, idx + 1, dist, idx)
             ELSE NearestFromLast(cluster_info, lat, idx + 1, min_dist, nearest_cluster_idx)

\* the loop of lines 516-527: index (from 1) of the cluster whose centre is
\* nearest to the student; a later cluster wins only if strictly nearer
RECURSIVE NearestFrom(_, _, _, _, _)
NearestFrom(cluster_info, lat, idx, min_dist, nearest_cluster_idx) ==
    IF idx > Len(cluster_info) THEN nearest_cluster_idx
    ELSE LET dist == HaversineToCentroid(lat, cluster_info[idx].center)
         IN  IF RatLess(dist, min_dist)
             THEN NearestFrom(cluster_info, lat, idx + 1, dist, idx)
             ELSE NearestFrom(cluster_info, lat, idx + 1, min_dist, nearest_cluster_idx)

NearestCluster(runs, cluster_info, iso_student) ==
    NearestFrom(cluster_info, Latitude(runs, iso_student), 1, INFINITY, 1)

\* cluster_info after the isolated students were appended, one after the other
RECURSIVE AttachIsolated(_, _, _)
AttachIsolated(runs, cluster_info, isolated_students) ==
    IF isolated_students = <<>> THEN cluster_info
    ELSE LET iso_student == Head(isolated_students)
             k == NearestCluster(runs, cluster_info, iso_student)
         IN  AttachIsolated(runs,
                 [cluster_info EXCEPT ![k].students = Append(@, iso_student)],
                 Tail(isolated_students))

\* lines 512-536
Attach ==
    /\ pc = "attach"
    /\ cluster_analysis' =
          [cluster_analysis EXCEPT !.cluster_info =
              AttachIsolated(input, @, cluster_analysis.isolated_students)]
    /\ all_routes' = <<>>
    /\ total_distance' = 0
    /\ max_route_time' = 0
    /\ cluster_idx' = 0
    /\ pc' = "cluster"
    /\ UNCHANGED <<school_location, input, max_buses, service, results, num_buses, response,
                   solve_calls, onemap_calls>>
    /\ UNCHANGED <<call, returned, app_students, last_removed>>

CallRecord(site, students, num_vehicles) ==
    [ site |-> site,
      full |-> students = StudentList(input),
      students |-> Len(students),
      num_vehicles |-> num_vehicles ]

\* one round of the loop of lines 539-556
SolveCluster ==
    /\ pc = "cluster"
    /\ cluster_idx < Len(cluster_analysis.cluster_info)
    /\ LET cluster_students == cluster_analysis.cluster_info[cluster_idx + 1].students
           cluster_size == Len(cluster_students)
           buses_for_cluster == Max2(1, Ceil(cluster_size, CAPACITY))
       IN  \E answer \in SolverAnswers(cluster_size, buses_for_cluster) :
              LET result == solve_cvrp(input, cluster_students, buses_for_cluster, answer, service)
              IN  /\ solve_calls' = Append(solve_calls,
                                           CallRecord("cluster", cluster_students, buses_for_cluster))
                  /\ onemap_calls' = onemap_calls + Fetched(result)
                  /\ IF result.kind = "raised"
                     THEN /\ response' = Answer("exception", "solve_cvrp raised", <<>>, 0, 0, 0,
                                                None, FALSE, NO_VISUALIZATION)
                          /\ pc' = "done"
                          /\ UNCHANGED <<all_routes, total_distance, max_route_time, cluster_idx>>
                     ELSE /\ response' = response
                          /\ pc' = "cluster"
                          /\ cluster_idx' = cluster_idx + 1
                          /\ IF HasRoutes(result)
                             THEN /\ all_routes' = all_routes \o result.routes
                                  /\ total_distance' = total_distance + result.total_distance
                                  /\ max_route_time' = Max2(max_route_time, result.max_route_time)
                             ELSE UNCHANGED <<all_routes, total_distance, max_route_time>>
    /\ UNCHANGED <<school_location, input, max_buses, service, cluster_analysis, results, num_buses>>
    /\ UNCHANGED <<call, returned, app_students, last_removed>>

\* lines 558-569: return the cluster-based plan, or fall through to the sweep
ClusterReturn ==
    /\ pc = "cluster"
    /\ cluster_idx = Len(cluster_analysis.cluster_info)
    /\ IF all_routes # <<>>
       THEN /\ response' = Answer("plan", None, all_routes, Len(all_routes), max_route_time,
                                  total_distance, "cluster-based routing", TRUE,
                                  cluster_analysis.visualization)
            /\ pc' = "done"
       ELSE /\ response' = response
            /\ pc' = "sweep"
    /\ UNCHANGED <<school_location, input, max_buses, service, cluster_analysis, all_routes,
                   total_distance, max_route_time, cluster_idx, results, num_buses,
                   solve_calls, onemap_calls>>
    /\ UNCHANGED <<call, returned, app_students, last_removed>>

\* the candidate recorded for a result with routes
Candidate(result) ==
    [ num_buses |-> result.num_buses,
      routes |-> result.routes,
      max_time |-> result.max_route_time,
      total_distance |-> result.total_distance ]

\* try: solve_cvrp(school, students, k, api_key) ... except: pass
Try(k, answer) ==
    LET result == solve_cvrp(input, StudentList(input), k, answer, service)
    IN  /\ solve_calls' = Append(solve_calls, CallRecord("sweep", StudentList(input), k))
        /\ onemap_calls' = onemap_calls + Fetched(result)
        /\ results' = IF HasRoutes(result) THEN Append(results, Candidate(result)) ELSE results

\* a sweep that goes up to the recommended fleet whatever max_buses is
LastFleetUncapped == cluster_analysis.recommended_buses

\* range(2, min(max_buses, recommended_buses) + 1)
LastFleet == Min2(max_buses, cluster_analysis.recommended_buses)

\* lines 571-588
TryOneBus ==
    /\ pc = "sweep"
    /\ \E answer \in SolverAnswers(Len(StudentList(input)), 1) : Try(1, answer)
    /\ num_buses' = 2
    /\ pc' = IF cluster_analysis.recommended_buses > 1 /\ 2 <= LastFleet
             THEN "sweep_more" ELSE "select"
    /\ UNCHANGED <<school_location, input, max_buses, service, cluster_analysis, all_routes,
                   total_distance, max_route_time, cluster_idx, response>>
    /\ UNCHANGED <<call, returned, app_students, last_removed>>

\* one round of the loop of lines 589-601
TryMoreBuses ==
    /\ pc = "sweep_more"
    /\ \E answer \in SolverAnswers(Len(StudentList(input)), num_buses) :
          Try(num_buses, answer)
    /\ num_buses' = num_buses + 1
    /\ pc' = IF num_buses + 1 <= LastFleet THEN "sweep_more" ELSE "select"
    /\ UNCHANGED <<school_location, input, max_buses, service, cluster_analysis, all_routes,
                   total_distance, max_route_time, cluster_idx, response>>
    /\ UNCHANGED <<call, returned, app_students, last_removed>>

\* min(r['max_time'] for r in results)
MinTime(rs) ==
    LET i == CHOOSE i \in DOMAIN rs : \A j \in DOMAIN rs : rs[i].max_time <= rs[j].max_time
    IN  rs[i].max_time

\* min(results, key=lambda x: x['max_time']): the first of the minimal ones
MinByTime(rs) ==
    LET i == CHOOSE i \in DOMAIN rs :
                /\ \A j \in DOMAIN rs : rs[i].max_time <= rs[j].max_time
                /\ \A j \in 1..(i - 1) : rs[j].max_time > rs[i].max_time
    IN  rs[i]

\* the candidates left in the order they were recorded
Unsorted(rs) == rs

\* sorted(results, key=lambda x: x['num_buses']): stable
RECURSIVE SortedByBuses(_)
SortedByBuses(rs) ==
    IF rs = <<>> THEN <<>>
    ELSE LET i == CHOOSE i \in DOMAIN rs :
                     /\ \A j \in DOMAIN rs : rs[i].num_buses <= rs[j].num_buses
                     /\ \A j \in 1..(i - 1) : rs[j].num_buses > rs[i].num_buses
         IN  <<rs[i]>> \o SortedByBuses(SubSeq(rs, 1, i - 1) \o SubSeq(rs, i + 1, Len(rs)))

\* result['max_time'] <= min_time * 1.15
WithinThreshold(candidate, min_time) == 100 * candidate.max_time <= SLACK_PERCENT * min_time

\* lines 606-644: the candidate returned and the note that goes with it
PickBest(rs) ==
    LET min_time == MinTime(rs)
        results_sorted == SortedByBuses(rs)
        within == { i \in DOMAIN results_sorted : WithinThreshold(results_sorted[i], min_time) }
    IN  IF min_time > SPEED_MODE_SECONDS
        THEN [best |-> MinByTime(rs), note |-> "prioritizing speed"]
        ELSE IF within # {}
        THEN [ best |-> results_sorted[CHOOSE i \in within : \A j \in within : i <= j],
               note |-> "optimal balance" ]
        ELSE [best |-> MinByTime(rs), note |-> None]

\* an error answer that drops the visualization
CouldNotCreateRoutesBare(cluster_visualization) ==
    Answer("error", "Could not create routes", <<>>, 0, 0, 0, None, FALSE, NO_VISUALIZATION)

\* line 604
CouldNotCreateRoutes(cluster_visualization) ==
    Answer("error", "Could not create routes", <<>>, 0, 0, 0, None, TRUE, cluster_visualization)

\* lines 603-644
Select ==
    /\ pc = "select"
    /\ IF results = <<>>
       THEN response' = CouldNotCreateRoutes(cluster_analysis.visualization)
       ELSE LET pick == PickBest(results)
            IN  response' = Answer("plan", None, pick.best.routes, pick.best.num_buses,
                                   pick.best.max_time, pick.best.total_distance, pick.note,
                                   TRUE, cluster_analysis.visualization)
    /\ pc' = "done"
    /\ UNCHANGED <<school_location, input, max_buses, service, cluster_analysis, all_routes,
                   total_distance, max_route_time, cluster_idx, results, num_buses,
                   solve_calls, onemap_calls>>
    /\ UNCHANGED <<call, returned, app_students, last_removed>>

Next ==
    \/ SetSchool
    \/ Endpoint
    \/ Analyze
    \/ Attach
    \/ SolveCluster
    \/ ClusterReturn
    \/ TryOneBus
    \/ TryMoreBuses
    \/ Select

Spec == Init /\ [][Next]_vars

-----------------------------------------------------------------------------
(* Direct calls of the functions of route_optimizer.py: the arguments are   *)
(* drawn when the call is made, the function runs, its result is kept.      *)

request_vars == <<school_location, input, max_buses, service, pc, cluster_analysis,
                  all_routes, total_distance, max_route_time, cluster_idx, results,
                  num_buses, response, solve_calls, onemap_calls>>

\* no request is being served
NoRequest ==
    /\ school_location = None
    /\ input = <<>>
    /\ max_buses = DEFAULT_MAX_BUSES
    /\ service = ServiceException
    /\ pc = "idle"
    /\ cluster_analysis = NOT_ANALYSED
    /\ all_routes = <<>>
    /\ total_distance = 0
    /\ max_route_time = 0
    /\ cluster_idx = 0
    /\ results = <<>>
    /\ num_buses = 0
    /\ response = NO_RESPONSE
    /\ solve_calls = <<>>
    /\ onemap_calls = 0

\* character codes of ' ', '>', '?', '@', 'A', '_', '`': below 63, final
\* chunks 0, 1, 2 and continuation chunks 0, 1
PolylineChars == {32, 62, 63, 64, 65, 95, 96}

Polylines == UNION { [1..n -> PolylineChars] : n \in 0..MaxPolyline }

DecodeCalls == { [fn |-> "decode_polyline", encoded |-> e] : e \in Polylines }

\* student lists without a full bus load at one place
MatrixCalls ==
    { [fn |-> "build_distance_matrix_fast", runs |-> rs] :
        rs \in { rs \in RunLists : \A i \in DOMAIN rs : rs[i].size < CAPACITY } }

\* what the sweep can have recorded when the selection starts: one candidate
\* per fleet size that gave routes, in increasing fleet size k, each with at
\* most k routes (a bus may stay empty).  Times in seconds, distances in km.
CandidateTimes == {1000, 1100, 2000}

CandidateDistances == {10, 20}

\* a candidate holds as many routes as it has buses; the routes are not
\* read by the selection and are kept as their numbers
Recorded(n, t, d) ==
    [ num_buses |-> n, routes |-> [r \in 1..n |-> r], max_time |-> t, total_distance |-> d ]

RecordedResults ==
    { rs \in UNION { [1..n -> { Recorded(b, t, d) : b \in 1..MaxBuses, t \in CandidateTimes,
                                                   d \in CandidateDistances }]
                     : n \in 1..MaxBuses } :
        \A i \in DOMAIN rs : rs[i].num_buses <= MaxBuses - Len(rs) + i }

SelectCalls == { [fn |-> "select", results |-> rs] : rs \in RecordedResults }

FunctionCalls == DecodeCalls \cup MatrixCalls \cup SelectCalls

FunctionInit ==
    /\ NoRequest
    /\ call \in FunctionCalls
    /\ returned = NOT_RETURNED
    /\ app_students = <<>>
    /\ last_removed = 0

CallDecodePolyline ==
    /\ call.fn = "decode_polyline"
    /\ ~returned.done
    /\ returned' = Return(decode_polyline(call.encoded))
    /\ UNCHANGED <<call, request_vars, app_students, last_removed>>

CallBuildDistanceMatrix ==
    /\ call.fn = "build_distance_matrix_fast"
    /\ ~returned.done
    /\ returned' = Return(build_distance_matrix_fast(call.runs, StudentList(call.runs)))
    /\ UNCHANGED <<call, request_vars, app_students, last_removed>>

\* the selection of optimize_routes (lines 606-644) on recorded candidates
CallSelect ==
    /\ call.fn = "select"
    /\ ~returned.done
    /\ returned' = Return(PickBest(call.results).best)
    /\ UNCHANGED <<call, request_vars, app_students, last_removed>>

FunctionNext ==
    \/ CallDecodePolyline
    \/ CallBuildDistanceMatrix
    \/ CallSelect

FunctionSpec == FunctionInit /\ [][FunctionNext]_vars

\* the call has returned
Returned(fn) == call.fn = fn /\ returned.done

-----------------------------------------------------------------------------
(* The handlers of app.py that edit the in-memory student list: add_student, *)
(* delete_student and generate_students, in any order.  A row keeps the id  *)
(* and the latitude of a student (whole km on the meridian); the request   *)
(* specification reads the list as the runs of  input .                    *)

StudentLatitudes == {2, 9}

\* students = [s for s in students if s['id'] != student_id]
WithoutId(rows, student_id) == Filter(rows, { r \in Range(rows) : r.id # student_id })

\* the ids a DELETE request can name: those ever given, and one never given
RequestedIds == 1..(MaxStudents + 1)

StudentsInit ==
    /\ NoRequest
    /\ call = NO_CALL
    /\ returned = NOT_RETURNED
    /\ app_students = <<>>
    /\ last_removed = 0

\* app.py add_student (lines 73-88): id = len(students) + 1
add_student ==
    /\ Len(app_students) < MaxStudents
    /\ \E latitude \in StudentLatitudes :
          app_students' = Append(app_students,
                                 [id |-> Len(app_students) + 1, latitude |-> latitude])
    /\ UNCHANGED <<last_removed, call, returned, request_vars>>

\* app.py delete_student (lines 90-95): every row with the id goes
delete_student ==
    /\ \E student_id \in RequestedIds :
          /\ app_students' = WithoutId(app_students, student_id)
          /\ last_removed' = Len(app_students) - Len(WithoutId(app_students, student_id))
    /\ UNCHANGED <<call, returned, request_vars>>

\* the rows generate_students builds before it extends the list (lines 305-442):
\* the k-th has id len(students) + len(generated_students) + 1 with k - 1 generated
GeneratedStudents(rows, latitudes) ==
    [k \in DOMAIN latitudes |-> [id |-> Len(rows) + (k - 1) + 1, latitude |-> latitudes[k]]]

\* app.py generate_students: the address service decides how many rows come
generate_students ==
    /\ \E n \in 0..MaxGenerated :
          /\ Len(app_students) + n <= MaxStudents
          /\ \E latitudes \in [1..n -> StudentLatitudes] :
                app_students' = app_students \o GeneratedStudents(app_students, latitudes)
    /\ UNCHANGED <<last_removed, call, returned, request_vars>>

StudentsNext ==
    \/ add_student
    \/ delete_student
    \/ generate_students

StudentsSpec == StudentsInit /\ [][StudentsNext]_vars

-----------------------------------------------------------------------------
(* State predicates shared by the properties *)

Done == pc = "done"

PlanReturned == Done /\ response.kind = "plan"

InputStudents == Range(StudentList(input))

\* the request reached optimize_routes with a school and students
Optimized == Done /\ response.kind # "bad_request"

SweepCalls == { i \in DOMAIN solve_calls : solve_calls[i].site = "sweep" }

\* all students of the returned routes, in one list
ReturnedStudents == Flatten([r \in DOMAIN response.routes |-> response.routes[r].students])

TypeOK ==
    /\ pc \in {"request", "optimize", "attach", "cluster", "sweep", "sweep_more", "select",
              "done", "idle"}
    /\ max_buses \in 1..MaxBuses
    /\ onemap_calls \in Nat

-----------------------------------------------------------------------------
(* C1.  Coverage: in every plan returned without an error the students of   *)
(* the routes are exactly the students of the request, and no student is   *)
(* in two routes (or twice in one).                                        *)
C1_Coverage ==
    PlanReturned =>
        /\ Range(ReturnedStudents) = InputStudents
        /\ Len(ReturnedStudents) = Cardinality(Range(ReturnedStudents))

(* C2.  Capacity: every route of every returned plan carries at most 40    *)
(* students, in the per-cluster branch and in the fleet sweep.             *)
C2_Capacity ==
    PlanReturned =>
        \A r \in DOMAIN response.routes :
            /\ Len(response.routes[r].students) <= 40
            /\ response.routes[r].student_count <= 40

\* a cluster-based plan in which a cluster grew past 40 by an attached
\* isolated student and was served by a full bus
C2_Witness ==
    /\ PlanReturned
    /\ response.optimization_note = "cluster-based routing"
    /\ \E c \in DOMAIN cluster_analysis.cluster_info :
          /\ cluster_analysis.cluster_info[c].size <= 40
          /\ Len(cluster_analysis.cluster_info[c].students) > 40
    /\ \E r \in DOMAIN response.routes : response.routes[r].student_count = 40

(* C3.  Single student: a request with a school, one student and           *)
(* max_buses = 3 is answered by a plan of one route that holds the student, *)
(* with the segments school -> student, student -> school, total_buses 1.  *)
C3_SingleStudent ==
    (Optimized /\ Len(StudentList(input)) = 1 /\ max_buses = 3) =>
        /\ response.kind = "plan"
        /\ Len(response.routes) = 1
        /\ response.routes[1].students = StudentList(input)
        /\ Len(response.routes[1].segments) = 2
        /\ response.routes[1].segments[1].from = SCHOOL_POS
        /\ response.routes[1].segments[1].to = Latitude(input, 1)
        /\ response.routes[1].segments[2].from = Latitude(input, 1)
        /\ response.routes[1].segments[2].to = SCHOOL_POS
        /\ response.total_buses = 1

(* C4.  Depot closure: in every returned route the first segment starts at *)
(* the school, the last one ends at the school, each segment starts where  *)
(* the previous one ended, and there are student_count + 1 segments.       *)
C4_DepotClosure ==
    PlanReturned =>
        \A r \in DOMAIN response.routes :
            LET route == response.routes[r]
                segs == route.segments
            IN  /\ Len(segs) = route.student_count + 1
                /\ segs[1].from = SCHOOL_POS
                /\ segs[Len(segs)].to = SCHOOL_POS
                /\ \A i \in 1..(Len(segs) - 1) : segs[i + 1].from = segs[i].to

\* a returned route that picks up students at two different places
C4_Witness ==
    /\ PlanReturned
    /\ \E r \in DOMAIN response.routes :
          \E i, j \in DOMAIN response.routes[r].students :
              Latitude(input, response.routes[r].students[i])
                  # Latitude(input, response.routes[r].students[j])

\* the recorded candidates that the answer of the sweep was taken from
Chosen ==
    { i \in DOMAIN results :
        /\ results[i].routes = response.routes
        /\ results[i].num_buses = response.total_buses }

SweepPlan == PlanReturned /\ response.optimization_note # "cluster-based routing"

(* C5.  Selection rule: with T* the least max route time of the recorded   *)
(* candidates, if T* <= 1800 s the chosen candidate has max_time <=        *)
(* 1.15 T* and the fewest buses of all candidates within 1.15 T*; if       *)
(* T* > 1800 s the chosen candidate has max_time = T*.                     *)
C5_SelectionRule ==
    SweepPlan =>
        LET t_star == MinTime(results)
            within == { i \in DOMAIN results : 100 * results[i].max_time <= 115 * t_star }
        IN  \E c \in Chosen :
                IF t_star <= 1800
                THEN /\ c \in within
                     /\ \A i \in within : results[c].num_buses <= results[i].num_buses
                ELSE results[c].max_time = t_star

\* the sweep kept a one-bus candidate that is slower than T* but within the slack,
\* although a faster candidate with more buses was recorded
C5_Witness ==
    /\ SweepPlan
    /\ MinTime(results) <= 1800
    /\ \E c \in Chosen :
          /\ results[c].max_time > MinTime(results)
          /\ \E i \in DOMAIN results :
                /\ results[i].num_buses > results[c].num_buses
                /\ results[i].max_time = MinTime(results)

\* get_route_from_onemap calls that the returned routes account for
SegmentsReturned ==
    SumSeq([r \in DOMAIN response.routes |-> Len(response.routes[r].segments)])

(* C6.  The routing client is called only for the segments of the plan     *)
(* that is returned: when optimize_routes has returned, the number of      *)
(* get_route_from_onemap calls made is the number of segments returned.    *)
C6_ClientOnlyForChosenPlan ==
    (Done /\ response.kind \in {"plan", "error"}) => onemap_calls = SegmentsReturned

(* C7.  When the request is done, every segment of every returned route    *)
(* has a geometry of at least 2 points, whatever the service answered.     *)
C7_GeometryTwoPoints ==
    PlanReturned =>
        \A r \in DOMAIN response.routes :
            \A i \in DOMAIN response.routes[r].segments :
                Len(response.routes[r].segments[i].geometry) >= 2

(* C8.  Infeasible capacity is a validation error: a request with more     *)
(* than 40 * max_buses students is answered INFEASIBLE_CAPACITY, and       *)
(* neither the cluster analyzer nor the CVRP solver runs.                  *)
C8_InfeasibleCapacity ==
    (Optimized /\ Len(StudentList(input)) > 40 * max_buses) =>
        /\ response.error = "INFEASIBLE_CAPACITY"
        /\ response.routes = <<>>
        /\ cluster_analysis = NOT_ANALYSED
        /\ solve_calls = <<>>

\* the sweep ran and recorded no candidate
SweepCameUpEmpty == Done /\ SweepCalls # {} /\ results = <<>>

(* C9.  When no fleet size of the sweep yields routes, the answer has an   *)
(* error, no routes, total_buses 0 and the analyzer's visualization.       *)
C9_NoSolution ==
    SweepCameUpEmpty =>
        /\ response.kind = "error"
        /\ response.error # None
        /\ response.routes = <<>>
        /\ response.total_buses = 0
        /\ response.has_cluster_visualization
        /\ response.cluster_visualization = analyze_student_clusters(input).visualization

\* two fleet sizes were tried and neither gave routes
C9_Witness ==
    /\ SweepCameUpEmpty
    /\ Cardinality(SweepCalls) >= 2
    /\ analyze_student_clusters(input).visualization.clusters # <<>>

\* the analysis as analyze_student_clusters returned it (the attach loop has not run)
JustAnalysed ==
    /\ cluster_analysis.state = "full"
    /\ pc \in {"attach", "sweep"}
    /\ solve_calls = <<>>

\* members of the clusters and the isolated list, one after the other
AnalysedStudents ==
    Flatten([c \in DOMAIN cluster_analysis.cluster_info |->
                cluster_analysis.cluster_info[c].students])
        \o cluster_analysis.isolated_students

(* C10.  Cluster partitioning: for 2 or more students the member lists of  *)
(* the clusters and the isolated list are pairwise disjoint and together   *)
(* are the student list; n_noise is the length of the isolated list and    *)
(* each cluster's size the length of its member list.                      *)
C10_ClusterPartition ==
    JustAnalysed =>
        /\ Range(AnalysedStudents) = InputStudents
        /\ Len(AnalysedStudents) = Cardinality(InputStudents)
        /\ cluster_analysis.n_noise = Len(cluster_analysis.isolated_students)
        /\ Len(cluster_analysis.cluster_info) = cluster_analysis.n_clusters
        /\ \A c \in DOMAIN cluster_analysis.cluster_info :
              cluster_analysis.cluster_info[c].size
                  = Len(cluster_analysis.cluster_info[c].students)

\* an analysis with two clusters and an isolated student
C10_Witness ==
    /\ JustAnalysed
    /\ cluster_analysis.n_clusters >= 2
    /\ cluster_analysis.n_noise >= 1

\* the request took the per-cluster routing branch of optimize_routes
PerClusterEntered ==
    \/ pc \in {"attach", "cluster"}
    \/ \E i \in DOMAIN solve_calls : solve_calls[i].site = "cluster"

\* the analysis was made and the branch was chosen
Analysed == cluster_analysis.state = "full"

(* C11.  Strategy threshold: with 2 or more clusters the analyzer          *)
(* recommends the far-apart allocation, and optimize_routes enters the     *)
(* per-cluster branch, exactly when the mean distance between cluster      *)
(* centres is strictly above 7 km; with 0 or 1 cluster the per-cluster     *)
(* branch is never entered.                                                *)
C11_StrategyThreshold ==
    Analysed =>
        LET above == cluster_analysis.avg_cluster_distance.num
                        > 7 * cluster_analysis.avg_cluster_distance.den
        IN  IF cluster_analysis.n_clusters >= 2
            THEN /\ (cluster_analysis.recommendation = "far apart") <=> above
                 /\ PerClusterEntered <=> above
            ELSE ~PerClusterEntered

\* two clusters whose centres are exactly 7 km apart went to the sweep
C11_Witness ==
    /\ Analysed
    /\ cluster_analysis.n_clusters >= 2
    /\ cluster_analysis.avg_cluster_distance = Rat(7, 1)
    /\ cluster_analysis.recommendation = "close"
    /\ pc = "sweep"

\* the chunk a character carries, and whether it ends a value
Chunk(c) == c - 63

EndsValue(c) == Chunk(c) < 32

\* the encoded string stops in the middle of a value
TruncatedInValue(encoded) == encoded # <<>> /\ ~EndsValue(encoded[Len(encoded)])

\* the number of complete values is odd: a latitude without its longitude
LatitudeWithoutLongitude(encoded) ==
    Cardinality({ i \in DOMAIN encoded : EndsValue(encoded[i]) }) % 2 = 1

BelowRange(encoded) == \E i \in DOMAIN encoded : encoded[i] < 63

Malformed(encoded) ==
    \/ TruncatedInValue(encoded)
    \/ LatitudeWithoutLongitude(encoded)
    \/ BelowRange(encoded)

\* what an encoder writes: complete pairs of values, characters from '?' on,
\* and no value that ends with an empty chunk after a continuation
WellFormed(encoded) ==
    /\ ~Malformed(encoded)
    /\ \A i \in DOMAIN encoded :
          (i > 1 /\ Chunk(encoded[i]) = 0) => EndsValue(encoded[i - 1])

RECURSIVE EncodeChunks(_)
\* the characters of a zig-zagged value, five bits at a time, low bits first
EncodeChunks(u) ==
    IF u >= 32 THEN <<32 + (u % 32) + 63>> \o EncodeChunks(u \div 32) ELSE <<u + 63>>

EncodeValue(v) == EncodeChunks(IF v < 0 THEN -2 * v - 1 ELSE 2 * v)

RECURSIVE EncodeFrom(_, _, _, _)
EncodeFrom(coordinates, i, lat, lng) ==
    IF i > Len(coordinates) THEN <<>>
    ELSE EncodeValue(coordinates[i][1] - lat) \o EncodeValue(coordinates[i][2] - lng)
            \o EncodeFrom(coordinates, i + 1, coordinates[i][1], coordinates[i][2])

\* the encoding decode_polyline reads, written from a list of coordinates
encode_polyline(coordinates) == EncodeFrom(coordinates, 1, 0, 0)

(* C12.  Polyline decoding: decode_polyline returns (it never raises); for *)
(* every malformed input - cut in the middle of a value, a latitude        *)
(* without a longitude, a character below ASCII 63 - it returns the empty  *)
(* list; and a well-formed encoding, decoded and encoded again, is the     *)
(* same string.                                                            *)
C12_PolylineDecoding ==
    Returned("decode_polyline") =>
        /\ Malformed(call.encoded) => returned.value = <<>>
        /\ WellFormed(call.encoded) => encode_polyline(returned.value) = call.encoded

\* the fallback triple of get_route_from_onemap: haversine distance, the
\* time estimated from it, the straight line from start to end
Fallback(start_lat, end_lat) ==
    [ distance |-> haversine_distance(start_lat, end_lat),
      time |-> estimate_travel_time(haversine_distance(start_lat, end_lat)),
      geometry |-> << <<start_lat, 0>>, <<end_lat, 0>> >> ]

\* the routing client was called while the request ran and every call failed
ClientFailed == Done /\ service \in ServiceFailures /\ onemap_calls > 0

(* C13.  Failures of the routing service are never surfaced: whenever the  *)
(* client was called and the service failed (exception or timeout,         *)
(* non-200 code, non-zero status, missing fields), the request is answered *)
(* by a plan without an error, and every segment carries the fallback      *)
(* triple - which is what get_route_from_onemap returns for each of the    *)
(* failures.  (An exception raised elsewhere is not the client's.)         *)
C13_ClientFailuresNotSurfaced ==
    (ClientFailed /\ response.kind # "exception") =>
        /\ response.kind = "plan"
        /\ response.error = None
        /\ \A r \in DOMAIN response.routes :
              \A i \in DOMAIN response.routes[r].segments :
                  LET seg == response.routes[r].segments[i]
                  IN  /\ seg.distance = Fallback(seg.from, seg.to).distance
                      /\ seg.time = Fallback(seg.from, seg.to).time
                      /\ seg.geometry = Fallback(seg.from, seg.to).geometry
                      /\ \A reply \in ServiceFailures :
                            get_route_from_onemap(seg.from, seg.to, reply)
                                = Fallback(seg.from, seg.to)

\* a plan of two routes was returned although every call of the client failed
C13_Witness ==
    /\ ClientFailed
    /\ response.kind = "plan"
    /\ Len(response.routes) >= 2
    /\ \E r \in DOMAIN response.routes :
          \E i \in DOMAIN response.routes[r].segments :
              response.routes[r].segments[i].distance > 0

(* C14.  The matrix of build_distance_matrix_fast is square of size        *)
(* number of students + 1, index 0 is the school, every entry is a         *)
(* non-negative integer, D[i][j] = D[j][i] and D[i][i] = 0.                *)
C14_DistanceMatrix ==
    Returned("build_distance_matrix_fast") =>
        LET D == returned.value
            n == NumStudents(call.runs)
        IN  /\ DOMAIN D = 0..n
            /\ \A i \in 0..n :
                  /\ DOMAIN D[i] = 0..n
                  /\ D[i][i] = 0
                  /\ \A j \in 0..n : D[i][j] \in Nat /\ D[i][j] = D[j][i]
            /\ \A j \in 1..n :
                  D[0][j] = (1000 * Abs(Latitude(call.runs, j) - SCHOOL_POS) * 1300) \div 1000

\* a matrix for students at different places
C14_Witness ==
    /\ Returned("build_distance_matrix_fast")
    /\ NumStudents(call.runs) >= 3
    /\ \E i, j \in 1..NumStudents(call.runs) : i > j /\ returned.value[i][j] > 0

\* fleet sizes the sweep called solve_cvrp with
SweepFleets == { solve_calls[i].num_vehicles : i \in SweepCalls }

(* C15.  Two tight clusters close together (20 + 20 students, about 3 km   *)
(* apart, max_buses = 3): the analyzer recommends a fleet of 1 with the    *)
(* close-or-single strategy, and the sweep runs the solver for each of     *)
(* the fleet sizes 1, 2 and 3.                                             *)
C15_TwoCloseClusters ==
    (Optimized /\ input \in TwoCloseClusters /\ max_buses = 3) =>
        /\ cluster_analysis.recommended_buses = 1
        /\ cluster_analysis.recommendation \in {"close", "one dense cluster"}
        /\ SweepFleets = {1, 2, 3}

\* the solve_cvrp calls of the sweep, in the order they were made
SweepCallSeq == Filter(solve_calls, { c \in Range(solve_calls) : c.site = "sweep" })

\* the sweep has made all its calls
SweepOver == pc \in {"select", "done"} /\ SweepCalls # {}

(* C16.  In the fleet sweep solve_cvrp is invoked for exactly the fleet    *)
(* sizes {1} and 2..min(max_buses, recommended fleet), once each, in       *)
(* increasing order, on the full student list.                             *)
C16_SweepFleetSizes ==
    SweepOver =>
        LET last == Max2(1, Min2(max_buses, cluster_analysis.recommended_buses))
        IN  /\ Len(SweepCallSeq) = last
            /\ \A k \in 1..last :
                  /\ SweepCallSeq[k].num_vehicles = k
                  /\ SweepCallSeq[k].full

\* a sweep that max_buses stopped below the recommended fleet
C16_Witness ==
    /\ SweepOver
    /\ max_buses = 2
    /\ cluster_analysis.recommended_buses = 3
    /\ SweepFleets = {1, 2}

(* C17.  When the analysis has 2 or more clusters whose mean centre        *)
(* distance is above 7 km, the fleet sweep never runs: no solve_cvrp call  *)
(* of the sweep is made, whatever the per-cluster solves returned.         *)
C17_FarApartSkipsSweep ==
    (Analysed /\ cluster_analysis.n_clusters >= 2
              /\ RatGreaterInt(cluster_analysis.avg_cluster_distance, 7)) =>
        SweepCalls = {}

\* the clusters (by index) whose member list holds the student, once per occurrence
ClustersHolding(student) ==
    { ci \in { <<c, i>> : c \in DOMAIN cluster_analysis.cluster_info,
                         i \in 1..NumStudents(input) } :
        /\ ci[2] \in DOMAIN cluster_analysis.cluster_info[ci[1]].students
        /\ cluster_analysis.cluster_info[ci[1]].students[ci[2]] = student }

\* the solve_cvrp calls of the per-cluster loop, in the order they were made
ClusterCallSeq == Filter(solve_calls, { c \in Range(solve_calls) : c.site = "cluster" })

\* the per-cluster branch is past its attach loop
Attached == Analysed /\ PerClusterEntered /\ pc # "attach"

(* C18.  In the per-cluster branch every isolated student is appended to   *)
(* the member list of exactly one cluster, one whose centre is at minimal  *)
(* haversine distance from the student (the lowest-index one on a tie),    *)
(* before any per-cluster solve runs; each cluster is then solved with     *)
(* ceil(size / 40) buses, size counting the attached students.             *)
C18_IsolatedAttachedToNearest ==
    /\ pc = "attach" => ClusterCallSeq = <<>>
    /\ Attached =>
          LET info == cluster_analysis.cluster_info
              dist(s, c) == HaversineToCentroid(Latitude(input, s), info[c].center)
          IN  /\ \A k \in DOMAIN cluster_analysis.isolated_students :
                    LET s == cluster_analysis.isolated_students[k]
                    IN  /\ Cardinality(ClustersHolding(s)) = 1
                        /\ \A ci \in ClustersHolding(s) :
                              /\ ci[2] > info[ci[1]].size
                              /\ \A c \in DOMAIN info :
                                    /\ ~RatLess(dist(s, c), dist(s, ci[1]))
                                    /\ c < ci[1] => RatLess(dist(s, ci[1]), dist(s, c))
              /\ \A k \in DOMAIN ClusterCallSeq :
                    /\ ClusterCallSeq[k].students = Len(info[k].students)
                    /\ ClusterCallSeq[k].num_vehicles * 40 >= Len(info[k].students)
                    /\ (ClusterCallSeq[k].num_vehicles - 1) * 40 < Len(info[k].students)

\* an isolated student as far from the first cluster as from the second
\* went to the first, and both clusters were solved
C18_Witness ==
    /\ Attached
    /\ Len(ClusterCallSeq) = 2
    /\ \E k \in DOMAIN cluster_analysis.isolated_students :
          LET s == cluster_analysis.isolated_students[k]
              info == cluster_analysis.cluster_info
          IN  /\ HaversineToCentroid(Latitude(input, s), info[1].center)
                    = HaversineToCentroid(Latitude(input, s), info[2].center)
              /\ \E i \in DOMAIN info[1].students : info[1].students[i] = s

\* the recorded candidates within 1.15 T* that have the fewest buses of those
TiedForFewest(rs) ==
    LET within == { i \in DOMAIN rs : 100 * rs[i].max_time <= 115 * MinTime(rs) }
    IN  { i \in within : \A j \in within : rs[i].num_buses <= rs[j].num_buses }

(* C19.  Tie-break in selection: when T* <= 1800 s and two or more         *)
(* recorded candidates within 1.15 T* have the same, smallest number of    *)
(* buses, the chosen one has the lowest total distance among them.         *)
C19_TieBreakByDistance ==
    Returned("select") =>
        LET rs == call.results
            tied == TiedForFewest(rs)
        IN  (MinTime(rs) <= 1800 /\ Cardinality(tied) >= 2) =>
                /\ \E i \in tied : returned.value = rs[i]
                /\ \A i \in tied : returned.value.total_distance <= rs[i].total_distance

\* the least whole number of 40-seat buses that seats n students
BusesToSeat(n) == CHOOSE k \in 0..n : 40 * k >= n /\ (k = 0 \/ 40 * (k - 1) < n)

(* C20.  Recommended fleet: for 2 or more students recommended_buses is    *)
(* ceil(N / 40) when there are 0 clusters, 1 cluster, or 2 or more clusters *)
(* with mean distance between centres at most 7 km, and the sum over the   *)
(* clusters of ceil(size / 40) plus ceil(isolated / 40) when there are 2   *)
(* or more clusters with mean distance above 7 km; it is always at least 1. *)
C20_RecommendedFleet ==
    Analysed =>
        LET info == cluster_analysis.cluster_info
            avg == cluster_analysis.avg_cluster_distance
            N == Cardinality(InputStudents)
            far == cluster_analysis.n_clusters >= 2 /\ avg.num > 7 * avg.den
        IN  /\ N >= 2
            /\ cluster_analysis.recommended_buses >= 1
            /\ ~far => cluster_analysis.recommended_buses = BusesToSeat(N)
            /\ far => cluster_analysis.recommended_buses
                         = SumSeq([c \in DOMAIN info |-> BusesToSeat(info[c].size)])
                               + BusesToSeat(cluster_analysis.n_noise)

\* far-apart clusters with an isolated student: one bus more than the clusters need
C20_Witness ==
    /\ Analysed
    /\ cluster_analysis.n_clusters >= 2
    /\ cluster_analysis.avg_cluster_distance.num > 7 * cluster_analysis.avg_cluster_distance.den
    /\ cluster_analysis.n_noise >= 1
    /\ cluster_analysis.recommended_buses = cluster_analysis.n_clusters + 1

(* C21.  Unique ids: after any sequence of add_student, delete_student and *)
(* generate_students the students of the list have pairwise distinct ids,  *)
(* and a delete_student removes at most one student.                       *)
C21_UniqueIds ==
    /\ \A i, j \in DOMAIN app_students :
          app_students[i].id = app_students[j].id => i = j
    /\ last_removed <= 1

(* C22.  max_buses bounds the fleet: every plan returned without an error  *)
(* has total_buses <= max_buses, in the per-cluster branch as well as in   *)
(* the fleet sweep; total_buses is the number of returned routes, and no   *)
(* returned route is empty.                                                *)
C22_MaxBusesBound ==
    PlanReturned =>
        /\ response.total_buses <= max_buses
        /\ response.total_buses = Len(response.routes)
        /\ \A r \in DOMAIN response.routes : response.routes[r].students # <<>>

=============================================================================
